---- MODULE Spec2Model ----
(***************************************************************************)
(* Corporate licence seat allocation and enrollment synchronisation of the *)
(* cencad-fastapi backend: the request handlers of                         *)
(* app/api/v1/routers/corporate.py and app/api/v1/routers/payments.py over *)
(* the MongoDB collections of app/db/corporate_repository.py,              *)
(* app/db/enrollment_repository.py and app/db/repository.py.               *)
(*                                                                         *)
(* Every handler is an async coroutine; it can be interleaved with other   *)
(* requests at each await on the persistence layer and nowhere else.  One  *)
(* action of the model is therefore one awaited database call together     *)
(* with the synchronous code that follows it up to the next await.         *)
(***************************************************************************)
EXTENDS Integers, Sequences, FiniteSets, TLC

\* ---------------------------------------------------------------- bounds
MaxRequests == 3      \* requests started in one behaviour
MaxSeats == 2         \* largest total_seats of a licence
MaxTrainees == 3      \* trainee records ever created (ObjectIds are never reused)
MaxUsers == 3         \* user records ever created

\* ------------------------------------------------------------ the universe
None == "None"                       \* Python's None in a string-valued field
Nil == -1                            \* Python's None in an integer-valued field
Reqs == {"r1", "r2"}                 \* requests that can be in flight together
RaceReqs == {"r1", "r2", "r3"}       \* the requests of the assign race
Accounts == {"A", "B"}
LicenseIds == {"L1", "L2", "L3"}
Emails == {"e1", "e2", "e3"}
TraineeIds == 1..MaxTrainees
UserIds == 1..MaxUsers

\* corporate_licenses documents: everything but assigned_seats is written once
\* (create_license) and never updated.
LicenseAccount(l) == IF l = "L3" THEN "B" ELSE "A"
LicenseSchedule(l) == "s1"
LicenseCourse(l) == "c1"

\* ------------------------------------------------------------------ state
VARIABLES
    total_seats,      \* corporate_licenses: licence id -> total_seats
    assigned_seats,   \* corporate_licenses: licence id -> assigned_seats
    trainees,         \* corporate_trainees: set of documents
    next_trainee,     \* next fresh CorporateTrainee id (str(ObjectId()))
    assignments,      \* corporate_assignments: (trainee_id, license_id) -> number of documents
    users,            \* users: set of documents
    next_user,        \* next fresh user _id
    enrollments,      \* enrollments: documents in insertion order
    indexes,          \* collections whose create_indexes() has been run on this database
    accounts,         \* corporate_accounts: documents of the accounts registered since Init
    req,              \* the requests in flight: request -> its parameters, locals and position
    started,          \* requests started so far
    mode,             \* "concurrent": requests overlap; "sequential": one request at a time
    seat_call         \* the last direct call of the seat store: operation, arguments, return value

vars == <<total_seats, assigned_seats, trainees, next_trainee, assignments, users,
          next_user, enrollments, indexes, accounts, req, started, mode, seat_call>>

store == <<total_seats, assigned_seats, trainees, next_trainee, assignments, users,
           next_user, enrollments, indexes, accounts>>

\* A request slot that runs nothing.
IdleRequest ==
    [op |-> "idle", pc |-> "done", account |-> None, trainee_id |-> Nil,
     license_id |-> None, email |-> None, event |-> None, user_id |-> Nil,
     new_trainee |-> Nil, existing |-> Nil, result |-> None,
     seq |-> 0, seats_before |-> Nil, assigned_before |-> Nil,
     full_at_increment |-> FALSE, enroll_raised |-> None, before |-> Nil,
     new_account |-> Nil, account_failed |-> FALSE]

NoSeatCall == [op |-> None, license_id |-> None, before |-> Nil, returned |-> FALSE]

\* --------------------------------------------------------- the collections
LicenseExists(l) == l \in LicenseIds

TraineeDocs(t) == {d \in trainees : d.id = t}

AssignmentCount(t, l) ==
    IF <<t, l>> \in DOMAIN assignments THEN assignments[<<t, l>>] ELSE 0

AssignmentsOfLicense(l) ==
    LET S == {t \in TraineeIds : assignments[<<t, l>>] > 0}
        RECURSIVE Sum(_)
        Sum(T) == IF T = {} THEN 0
                  ELSE LET t == CHOOSE x \in T : TRUE
                       IN assignments[<<t, l>>] + Sum(T \ {t})
    IN Sum(S)

\* EnrollmentRepository.create_enrollment binds its arguments by keyword: the
\* parameters it declares.
CreateEnrollmentParams == {"user_id", "schedule_id", "course_id", "payment_transaction_id"}

\* The call of assign_trainee as it would be with declared keywords only.
AssignEnrollmentKwargsDeclared == {"user_id", "schedule_id", "course_id"}

\* The keyword arguments of the three calls of create_enrollment.
AssignEnrollmentKwargs ==
    {"user_id", "schedule_id", "course_id", "amount_total", "payment_status",
     "payment_method_type", "stripe_payment_intent_id"}

WebhookEnrollmentKwargs ==
    {"user_id", "schedule_id", "course_id", "amount_total", "currency",
     "stripe_checkout_session_id", "stripe_payment_intent_id", "stripe_customer_id",
     "payment_status"}

EnrollmentDoc(u, s, c) ==
    [user_id |-> u, schedule_id |-> s, course_id |-> c, status |-> "ENROLLED",
     payment_status |-> "PENDING", payment_transaction_id |-> None]

EnrollmentMatches(docs, u, s) ==
    {i \in 1..Len(docs) : docs[i].user_id = u /\ docs[i].schedule_id = s}

\* create_enrollment as it would be with a signature that takes any keyword
\* (def create_enrollment(self, user_id, schedule_id, course_id, **payment)).
create_enrollment_any_keyword(docs, kwargs, u, s, c) ==
    IF "enrollments" \in indexes /\ EnrollmentMatches(docs, u, s) # {}
    THEN [raised |-> "DuplicateKeyError", docs |-> docs]
    ELSE [raised |-> None, docs |-> Append(docs, EnrollmentDoc(u, s, c))]

\* create_enrollment(**kwargs): a keyword the signature does not declare raises
\* TypeError when the call is made, before any document is built or inserted.
\* A declared call inserts the document; the unique (user_id, schedule_id) index,
\* where it exists, rejects a second document of a pair with DuplicateKeyError.
create_enrollment(docs, kwargs, u, s, c) ==
    IF ~(kwargs \subseteq CreateEnrollmentParams)
    THEN [raised |-> "TypeError", docs |-> docs]
    ELSE IF "enrollments" \in indexes /\ EnrollmentMatches(docs, u, s) # {}
    THEN [raised |-> "DuplicateKeyError", docs |-> docs]
    ELSE [raised |-> None, docs |-> Append(docs, EnrollmentDoc(u, s, c))]

\* CorporateRepository.increment_assigned_seats: update_one({_id}, {$inc: 1});
\* modified_count > 0 whenever the licence document exists.
increment_assigned_seats(seats, l) ==
    IF LicenseExists(l)
    THEN [seats |-> [seats EXCEPT ![l] = @ + 1], returned |-> TRUE]
    ELSE [seats |-> seats, returned |-> FALSE]

\* decrement_assigned_seats as it would be with the filter {_id} alone.
decrement_assigned_seats_unguarded(seats, l) ==
    IF LicenseExists(l)
    THEN [seats |-> [seats EXCEPT ![l] = @ - 1], returned |-> TRUE]
    ELSE [seats |-> seats, returned |-> FALSE]

\* CorporateRepository.decrement_assigned_seats: update_one({_id, assigned_seats > 0}, {$inc: -1}).
decrement_assigned_seats(seats, l) ==
    IF LicenseExists(l) /\ seats[l] > 0
    THEN [seats |-> [seats EXCEPT ![l] = @ - 1], returned |-> TRUE]
    ELSE [seats |-> seats, returned |-> FALSE]

\* CorporateRepository.create_assignment: insert_one; any exception (the
\* DuplicateKeyError of the unique (trainee_id, license_id) index) gives False.
create_assignment(asg, t, l) ==
    IF <<t, l>> \notin DOMAIN asg \/ ("assignments" \in indexes /\ asg[<<t, l>>] > 0)
    THEN [assignments |-> asg, returned |-> FALSE]
    ELSE [assignments |-> [asg EXCEPT ![<<t, l>>] = @ + 1], returned |-> TRUE]

\* remove_assignment as it would be if it did not read deleted_count.
remove_assignment_unchecked(asg, t, l) ==
    IF <<t, l>> \in DOMAIN asg /\ asg[<<t, l>>] > 0
    THEN [assignments |-> [asg EXCEPT ![<<t, l>>] = @ - 1], returned |-> TRUE]
    ELSE [assignments |-> asg, returned |-> TRUE]

\* CorporateRepository.remove_assignment: delete_one({trainee_id, license_id}).
remove_assignment(asg, t, l) ==
    IF <<t, l>> \in DOMAIN asg /\ asg[<<t, l>>] > 0
    THEN [assignments |-> [asg EXCEPT ![<<t, l>>] = @ - 1], returned |-> TRUE]
    ELSE [assignments |-> asg, returned |-> FALSE]

\* ------------------------------------------------------ request bookkeeping
CanStart(r) ==
    /\ req[r].pc = "done"
    /\ started < MaxRequests
    /\ mode = "sequential" => \A q \in DOMAIN req : req[q].pc = "done"

\* History of a request, kept for sequential runs only: its position in the
\* order of requests and the values it found when it started.
Turn == IF mode = "sequential" THEN started + 1 ELSE 0
Before(x) == IF mode = "sequential" THEN x ELSE Nil

\* The collections as a request of a sequential run finds them.
Snapshot ==
    [trainees |-> trainees, users |-> users, assignments |-> assignments,
     assigned_seats |-> assigned_seats, enrollments |-> enrollments,
     accounts |-> accounts]

At(r, op, pc) == req[r].op = op /\ req[r].pc = pc

Finish(r, result) == req' = [req EXCEPT ![r].pc = "done", ![r].result = result]

Goto(r, pc) == req' = [req EXCEPT ![r].pc = pc]

SeatsOf(l) == IF LicenseExists(l) THEN assigned_seats[l] ELSE Nil

\* --------------------------------------------- POST /corporate/trainees/assign
StartAssign(r, a, t, l) ==
    /\ CanStart(r)
    /\ req' = [req EXCEPT ![r] =
                 [IdleRequest EXCEPT !.op = "assign", !.pc = "a_license",
                                     !.seq = Turn, !.before = Before(Snapshot),
                                     !.account = a,
                                     !.trainee_id = t, !.license_id = l,
                                     !.seats_before = Before(SeatsOf(l)),
                                     !.assigned_before = Before(AssignmentCount(t, l))]]
    /\ started' = started + 1
    /\ UNCHANGED <<store, mode, seat_call>>

\* assign_trainee as it would be without the seat pre-check.
AssignFindLicenseNoSeatCheck(r) ==
    /\ At(r, "assign", "a_license")
    /\ LET l == req[r].license_id
       IN IF ~LicenseExists(l) \/ LicenseAccount(l) # req[r].account
          THEN Finish(r, "404 License not found")
          ELSE Goto(r, "a_trainee")
    /\ UNCHANGED <<store, started, mode, seat_call>>

\* find_license_by_id, the ownership check and the seat pre-check.
AssignFindLicense(r) ==
    /\ At(r, "assign", "a_license")
    /\ LET l == req[r].license_id
       IN IF ~LicenseExists(l) \/ LicenseAccount(l) # req[r].account
          THEN Finish(r, "404 License not found")
          ELSE IF assigned_seats[l] >= total_seats[l]
          THEN Finish(r, "400 No seats available")
          ELSE Goto(r, "a_trainee")
    /\ UNCHANGED <<store, started, mode, seat_call>>

\* find_trainee_by_id and the ownership check.
AssignFindTrainee(r) ==
    /\ At(r, "assign", "a_trainee")
    /\ LET docs == TraineeDocs(req[r].trainee_id)
       IN IF docs = {} \/ (\A d \in docs : d.corporate_account_id # req[r].account)
          THEN Finish(r, "404 Trainee not found")
          ELSE \E d \in docs :
                 req' = [req EXCEPT ![r].pc = "a_existing", ![r].user_id = d.user_id]
    /\ UNCHANGED <<store, started, mode, seat_call>>

\* assign_trainee as it would be without the existing-assignment check.
AssignFindAssignmentSkipped(r) ==
    /\ At(r, "assign", "a_existing")
    /\ Goto(r, "a_create")
    /\ UNCHANGED <<store, started, mode, seat_call>>

\* find_assignment: the pre-check of the (trainee, licence) pair.
AssignFindAssignment(r) ==
    /\ At(r, "assign", "a_existing")
    /\ IF AssignmentCount(req[r].trainee_id, req[r].license_id) > 0
       THEN Finish(r, "409 Already assigned")
       ELSE Goto(r, "a_create")
    /\ UNCHANGED <<store, started, mode, seat_call>>

\* create_assignment; False ends the request with 500.
AssignCreateAssignment(r) ==
    /\ At(r, "assign", "a_create")
    /\ LET c == create_assignment(assignments, req[r].trainee_id, req[r].license_id)
       IN /\ assignments' = c.assignments
          /\ IF c.returned THEN Goto(r, "a_increment")
                           ELSE Finish(r, "500 Assignment failed")
    /\ UNCHANGED <<total_seats, assigned_seats, trainees, next_trainee, users, next_user,
                   enrollments, indexes, accounts, started, mode, seat_call>>

\* assign_trainee as it would be if a failed ledger write undid the assignment
\* and failed the request.
AssignIncrementSeatsRollback(r) ==
    /\ At(r, "assign", "a_increment")
    /\ LET l == req[r].license_id
           e == create_enrollment(enrollments, AssignEnrollmentKwargs, req[r].user_id,
                                  LicenseSchedule(l), LicenseCourse(l))
       IN /\ enrollments' = e.docs
          /\ IF e.raised = None
             THEN /\ assigned_seats' = increment_assigned_seats(assigned_seats, l).seats
                  /\ UNCHANGED assignments
             ELSE /\ assignments' =
                       remove_assignment(assignments, req[r].trainee_id, l).assignments
                  /\ UNCHANGED assigned_seats
          /\ req' = [req EXCEPT ![r].pc = "done",
                                ![r].result = IF e.raised = None THEN "200 success"
                                                                 ELSE "500 Assignment failed",
                                ![r].enroll_raised = e.raised]
    /\ UNCHANGED <<total_seats, trainees, next_trainee, users, next_user,
                   indexes, accounts, started, mode, seat_call>>

\* increment_assigned_seats (its return value is not read), then the
\* create_enrollment call inside try/except Exception: pass, then success.
AssignIncrementSeats(r) ==
    /\ At(r, "assign", "a_increment")
    /\ LET l == req[r].license_id
           inc == increment_assigned_seats(assigned_seats, l)
           e == create_enrollment(enrollments, AssignEnrollmentKwargs, req[r].user_id,
                                  LicenseSchedule(l), LicenseCourse(l))
       IN /\ assigned_seats' = inc.seats
          /\ enrollments' = e.docs
          /\ req' = [req EXCEPT ![r].pc = "done", ![r].result = "200 success",
                                ![r].enroll_raised = e.raised,
                                ![r].full_at_increment =
                                    (assigned_seats[l] >= total_seats[l])]
    /\ UNCHANGED <<total_seats, trainees, next_trainee, assignments, users, next_user,
                   indexes, accounts, started, mode, seat_call>>

\* ------------------------------------------- POST /corporate/trainees/unassign
StartUnassign(r, a, t, l) ==
    /\ CanStart(r)
    /\ req' = [req EXCEPT ![r] =
                 [IdleRequest EXCEPT !.op = "unassign", !.pc = "u_find",
                                     !.seq = Turn, !.before = Before(Snapshot),
                                     !.account = a,
                                     !.trainee_id = t, !.license_id = l,
                                     !.seats_before = Before(SeatsOf(l)),
                                     !.assigned_before = Before(AssignmentCount(t, l))]]
    /\ started' = started + 1
    /\ UNCHANGED <<store, mode, seat_call>>

\* find_assignment: no ownership check is made.
UnassignFindAssignment(r) ==
    /\ At(r, "unassign", "u_find")
    /\ IF AssignmentCount(req[r].trainee_id, req[r].license_id) = 0
       THEN Finish(r, "404 Assignment not found")
       ELSE Goto(r, "u_remove")
    /\ UNCHANGED <<store, started, mode, seat_call>>

\* remove_assignment; False ends the request with 500.
UnassignRemoveAssignment(r) ==
    /\ At(r, "unassign", "u_remove")
    /\ LET d == remove_assignment(assignments, req[r].trainee_id, req[r].license_id)
       IN /\ assignments' = d.assignments
          /\ IF d.returned THEN Goto(r, "u_decrement")
                           ELSE Finish(r, "500 Unassign failed")
    /\ UNCHANGED <<total_seats, assigned_seats, trainees, next_trainee, users, next_user,
                   enrollments, indexes, accounts, started, mode, seat_call>>

\* decrement_assigned_seats (its return value is not read).
UnassignDecrementSeats(r) ==
    /\ At(r, "unassign", "u_decrement")
    /\ assigned_seats' = decrement_assigned_seats(assigned_seats, req[r].license_id).seats
    /\ Goto(r, "u_docs")
    /\ UNCHANGED <<total_seats, trainees, next_trainee, assignments, users, next_user,
                   enrollments, indexes, accounts, started, mode, seat_call>>

\* find_license_by_id (immutable fields only) and find_trainee_by_id; the
\* enrollment is looked for only when both documents were found.
UnassignFindDocs(r) ==
    /\ At(r, "unassign", "u_docs")
    /\ LET docs == TraineeDocs(req[r].trainee_id)
       IN IF LicenseExists(req[r].license_id) /\ docs # {}
          THEN \E d \in docs :
                 req' = [req EXCEPT ![r].pc = "u_enrollment", ![r].user_id = d.user_id]
          ELSE Finish(r, "200 success")
    /\ UNCHANGED <<store, started, mode, seat_call>>

\* enrollments.find_one({user_id, schedule_id}).
UnassignFindEnrollment(r) ==
    /\ At(r, "unassign", "u_enrollment")
    /\ LET m == EnrollmentMatches(enrollments, req[r].user_id,
                                  LicenseSchedule(req[r].license_id))
       IN IF m = {}
          THEN Finish(r, "200 success")
          ELSE \E i \in m : req' = [req EXCEPT ![r].pc = "u_update", ![r].existing = i]
    /\ UNCHANGED <<store, started, mode, seat_call>>

\* update_enrollment(enrollment_id, status="DROPPED"): find_one_and_update by _id.
UnassignDropEnrollment(r) ==
    /\ At(r, "unassign", "u_update")
    /\ enrollments' = [enrollments EXCEPT ![req[r].existing].status = "DROPPED"]
    /\ Finish(r, "200 success")
    /\ UNCHANGED <<total_seats, assigned_seats, trainees, next_trainee, assignments, users,
                   next_user, indexes, accounts, started, mode, seat_call>>

\* ------------------------------------------- POST /corporate/trainees/invite
UsersByEmail(e) == {d \in users : d.email = e}

TraineesOf(a, u) == {d \in trainees : d.corporate_account_id = a /\ d.user_id = u}

\* Invitations that have not yet inserted their CorporateTrainee.
PendingInvites ==
    Cardinality({r \in DOMAIN req : req[r].op = "invite" /\ req[r].pc # "done"
                                    /\ req[r].new_trainee = Nil})

\* email is request.email.lower(); l is request.license_id or None.
StartInvite(r, a, e, l) ==
    /\ CanStart(r)
    /\ next_trainee + PendingInvites <= MaxTrainees
    /\ next_user + PendingInvites <= MaxUsers
    /\ req' = [req EXCEPT ![r] =
                 [IdleRequest EXCEPT !.op = "invite", !.pc = "i_user",
                                     !.seq = Turn, !.before = Before(Snapshot),
                                     !.account = a,
                                     !.email = e, !.license_id = l,
                                     !.seats_before = Before(SeatsOf(l))]]
    /\ started' = started + 1
    /\ UNCHANGED <<store, mode, seat_call>>

\* user_repo.find_by_email.
InviteFindUser(r) ==
    /\ At(r, "invite", "i_user")
    /\ LET found == UsersByEmail(req[r].email)
       IN IF found = {}
          THEN Goto(r, "i_user_check")
          ELSE \E d \in found :
                 req' = [req EXCEPT ![r].pc = "i_trainee", ![r].user_id = d.id]
    /\ UNCHANGED <<store, started, mode, seat_call>>

\* UserRepository.create_user, first await: the email look-up; ValueError -> 409.
InviteCreateUserCheck(r) ==
    /\ At(r, "invite", "i_user_check")
    /\ IF UsersByEmail(req[r].email) # {}
       THEN Finish(r, "409 User conflict during creation")
       ELSE Goto(r, "i_user_insert")
    /\ UNCHANGED <<store, started, mode, seat_call>>

\* UserRepository.create_user, second await: insert_one (DuplicateKeyError of the
\* unique email index is not a ValueError: 500), then the force_password_change update.
InviteCreateUserInsert(r) ==
    /\ At(r, "invite", "i_user_insert")
    /\ IF "users" \in indexes /\ UsersByEmail(req[r].email) # {}
       THEN Finish(r, "500 Internal Server Error") /\ UNCHANGED <<users, next_user>>
       ELSE /\ users' = users \cup {[id |-> next_user, email |-> req[r].email]}
            /\ next_user' = next_user + 1
            /\ req' = [req EXCEPT ![r].pc = "i_trainee", ![r].user_id = next_user]
    /\ UNCHANGED <<total_seats, assigned_seats, trainees, next_trainee, assignments,
                   enrollments, indexes, accounts, started, mode, seat_call>>

\* invite_trainee as it would be without the already-a-trainee check.
InviteFindTraineeSkipped(r) ==
    /\ At(r, "invite", "i_trainee")
    /\ Goto(r, "i_create_trainee")
    /\ UNCHANGED <<store, started, mode, seat_call>>

\* find_trainee_by_email(account_id, user_id).
InviteFindTrainee(r) ==
    /\ At(r, "invite", "i_trainee")
    /\ IF TraineesOf(req[r].account, req[r].user_id) # {}
       THEN Finish(r, "409 User is already a trainee in this account")
       ELSE Goto(r, "i_create_trainee")
    /\ UNCHANGED <<store, started, mode, seat_call>>

\* create_trainee with a fresh id; without a licence id the request ends here.
InviteCreateTrainee(r) ==
    /\ At(r, "invite", "i_create_trainee")
    /\ trainees' = trainees \cup {[id |-> next_trainee,
                                   corporate_account_id |-> req[r].account,
                                   user_id |-> req[r].user_id]}
    /\ next_trainee' = next_trainee + 1
    /\ req' = [req EXCEPT ![r].new_trainee = next_trainee,
                          ![r].pc = IF req[r].license_id = None THEN "done" ELSE "i_license",
                          ![r].result = IF req[r].license_id = None THEN "200 invited"
                                                                    ELSE None]
    /\ UNCHANGED <<total_seats, assigned_seats, assignments, users, next_user, enrollments,
                   indexes, accounts, started, mode, seat_call>>

\* invite_trainee as it would be without the ownership check of the licence.
InviteFindLicenseAnyAccount(r) ==
    /\ At(r, "invite", "i_license")
    /\ LET l == req[r].license_id
       IN IF LicenseExists(l) /\ assigned_seats[l] < total_seats[l]
          THEN Goto(r, "i_create_assignment")
          ELSE Finish(r, "200 invited")
    /\ UNCHANGED <<store, started, mode, seat_call>>

\* find_license_by_id, ownership and free-seat checks; any failure is silent.
InviteFindLicense(r) ==
    /\ At(r, "invite", "i_license")
    /\ LET l == req[r].license_id
       IN IF LicenseExists(l) /\ LicenseAccount(l) = req[r].account
             /\ assigned_seats[l] < total_seats[l]
          THEN Goto(r, "i_create_assignment")
          ELSE Finish(r, "200 invited")
    /\ UNCHANGED <<store, started, mode, seat_call>>

InviteCreateAssignment(r) ==
    /\ At(r, "invite", "i_create_assignment")
    /\ LET c == create_assignment(assignments, req[r].new_trainee, req[r].license_id)
       IN /\ assignments' = c.assignments
          /\ IF c.returned THEN Goto(r, "i_increment") ELSE Finish(r, "200 invited")
    /\ UNCHANGED <<total_seats, assigned_seats, trainees, next_trainee, users, next_user,
                   enrollments, indexes, accounts, started, mode, seat_call>>

\* increment_assigned_seats, then create_enrollment inside try/except: pass.
InviteIncrementSeats(r) ==
    /\ At(r, "invite", "i_increment")
    /\ LET l == req[r].license_id
           e == create_enrollment(enrollments, AssignEnrollmentKwargs, req[r].user_id,
                                  LicenseSchedule(l), LicenseCourse(l))
       IN /\ assigned_seats' = increment_assigned_seats(assigned_seats, l).seats
          /\ enrollments' = e.docs
          /\ req' = [req EXCEPT ![r].pc = "done", ![r].result = "200 invited",
                                ![r].enroll_raised = e.raised,
                                ![r].full_at_increment =
                                    (assigned_seats[l] >= total_seats[l])]
    /\ UNCHANGED <<total_seats, trainees, next_trainee, assignments, users, next_user,
                   indexes, accounts, started, mode, seat_call>>

\* ------------------------------------------------- POST /corporate/register
\* Registrations that have not yet inserted their admin user.
PendingRegistrations ==
    Cardinality({r \in DOMAIN req : req[r].op = "register" /\ req[r].pc # "done"
                                    /\ req[r].user_id = Nil})

\* email is request.admin_email.lower().
StartRegister(r, e) ==
    /\ CanStart(r)
    /\ next_user + PendingRegistrations + PendingInvites <= MaxUsers
    /\ req' = [req EXCEPT ![r] =
                 [IdleRequest EXCEPT !.op = "register", !.pc = "g_user_check",
                                     !.seq = Turn, !.before = Before(Snapshot),
                                     !.email = e]]
    /\ started' = started + 1
    /\ UNCHANGED <<store, mode, seat_call>>

\* UserRepository.create_user, first await: the email look-up; ValueError -> 409.
RegisterCreateUserCheck(r) ==
    /\ At(r, "register", "g_user_check")
    /\ IF UsersByEmail(req[r].email) # {}
       THEN Finish(r, "409 Email already registered")
       ELSE Goto(r, "g_user_insert")
    /\ UNCHANGED <<store, started, mode, seat_call>>

\* UserRepository.create_user, second await: insert_one; the DuplicateKeyError of
\* the unique email index is not a ValueError and ends the request with 500.
RegisterCreateUserInsert(r) ==
    /\ At(r, "register", "g_user_insert")
    /\ IF "users" \in indexes /\ UsersByEmail(req[r].email) # {}
       THEN Finish(r, "500 Internal Server Error") /\ UNCHANGED <<users, next_user>>
       ELSE /\ users' = users \cup {[id |-> next_user, email |-> req[r].email]}
            /\ next_user' = next_user + 1
            /\ req' = [req EXCEPT ![r].pc = "g_account", ![r].user_id = next_user]
    /\ UNCHANGED <<total_seats, assigned_seats, trainees, next_trainee, assignments,
                   enrollments, indexes, accounts, started, mode, seat_call>>

\* CorporateRepository.create_account: insert_one of a document with a fresh _id;
\* an exception of the persistence layer gives False.
RegisterCreateAccount(r) ==
    /\ At(r, "register", "g_account")
    /\ \E inserted \in BOOLEAN :
          IF inserted
          THEN /\ accounts' = accounts \cup {[id |-> Cardinality(accounts) + 1,
                                               admin_user_id |-> req[r].user_id]}
               /\ req' = [req EXCEPT ![r].pc = "g_find",
                                     ![r].new_account = Cardinality(accounts) + 1]
          ELSE /\ UNCHANGED accounts
               /\ req' = [req EXCEPT ![r].pc = "g_delete", ![r].account_failed = TRUE]
    /\ UNCHANGED <<total_seats, assigned_seats, trainees, next_trainee, assignments, users,
                   next_user, enrollments, indexes, started, mode, seat_call>>

\* register_corporate_account as it would be without the compensating delete.
RegisterDeleteUserSkipped(r) ==
    /\ At(r, "register", "g_delete")
    /\ Finish(r, "500 Failed to create account")
    /\ UNCHANGED <<store, started, mode, seat_call>>

\* user_repo.delete_user(user_id): delete_one by _id, then 500.
RegisterDeleteUser(r) ==
    /\ At(r, "register", "g_delete")
    /\ users' = {d \in users : d.id # req[r].user_id}
    /\ Finish(r, "500 Failed to create account")
    /\ UNCHANGED <<total_seats, assigned_seats, trainees, next_trainee, assignments,
                   next_user, enrollments, indexes, accounts, started, mode, seat_call>>

\* find_account_by_id of the account just inserted.
RegisterFindAccount(r) ==
    /\ At(r, "register", "g_find")
    /\ IF \E a \in accounts : a.id = req[r].new_account
       THEN Finish(r, "201 created")
       ELSE Finish(r, "500 Failed to retrieve created account")
    /\ UNCHANGED <<store, started, mode, seat_call>>

\* ------------------------------------- DELETE /corporate/trainees/{trainee_id}
StartRemoveTrainee(r, a, t) ==
    /\ CanStart(r)
    /\ req' = [req EXCEPT ![r] =
                 [IdleRequest EXCEPT !.op = "remove", !.pc = "r_find",
                                     !.seq = Turn, !.before = Before(Snapshot),
                                     !.account = a,
                                     !.trainee_id = t]]
    /\ started' = started + 1
    /\ UNCHANGED <<store, mode, seat_call>>

RemoveFindTrainee(r) ==
    /\ At(r, "remove", "r_find")
    /\ LET docs == TraineeDocs(req[r].trainee_id)
       IN IF docs = {} \/ (\A d \in docs : d.corporate_account_id # req[r].account)
          THEN Finish(r, "404 Trainee not found")
          ELSE Goto(r, "r_delete")
    /\ UNCHANGED <<store, started, mode, seat_call>>

\* corp_repo.remove_trainee: only the trainee document is deleted.
RemoveDeleteTrainee(r) ==
    /\ At(r, "remove", "r_delete")
    /\ trainees' = trainees \ TraineeDocs(req[r].trainee_id)
    /\ Finish(r, "200 success")
    /\ UNCHANGED <<total_seats, assigned_seats, next_trainee, assignments, users, next_user,
                   enrollments, indexes, accounts, started, mode, seat_call>>

\* ------------------------------------------------- POST /payments/webhook
\* checkout.session.completed events: the session object of each.
Events == {"paid1", "paid2", "unpaid", "nometa", "nosched", "nocourse"}

\* The fields of a session that do not depend on the event.
SessionPayment ==
    [amount_total |-> 10000, currency |-> "cad", payment_intent |-> "pi_1",
     customer |-> "cus_1"]

EventSession(ev) ==
    CASE ev = "paid1" -> [id |-> "cs_1", payment_status |-> "paid", user_id |-> 1,
                          schedule_id |-> "s1", course_id |-> "c1"]
      [] ev = "paid2" -> [id |-> "cs_2", payment_status |-> "paid", user_id |-> 2,
                          schedule_id |-> "s1", course_id |-> "c1"]
      [] ev = "unpaid" -> [id |-> "cs_3", payment_status |-> "unpaid", user_id |-> 1,
                           schedule_id |-> "s1", course_id |-> "c1"]
      [] ev = "nometa" -> [id |-> "cs_4", payment_status |-> "paid", user_id |-> Nil,
                           schedule_id |-> "s1", course_id |-> "c1"]
      [] ev = "nosched" -> [id |-> "cs_5", payment_status |-> "paid", user_id |-> 2,
                            schedule_id |-> None, course_id |-> "c1"]
      [] ev = "nocourse" -> [id |-> "cs_6", payment_status |-> "paid", user_id |-> 2,
                             schedule_id |-> "s1", course_id |-> None]

\* The stripe_checkout_session_id of a stored enrollment (None when absent).
SessionIdOf(doc) ==
    IF "stripe_checkout_session_id" \in DOMAIN doc THEN doc.stripe_checkout_session_id
                                                   ELSE None

EnrollmentsOfSession(docs, sid) == {i \in 1..Len(docs) : SessionIdOf(docs[i]) = sid}

StartWebhook(r, ev) ==
    /\ CanStart(r)
    /\ req' = [req EXCEPT ![r] =
                 [IdleRequest EXCEPT !.op = "webhook", !.pc = "w_session",
                                     !.seq = Turn, !.before = Before(Snapshot),
                                     !.event = ev]]
    /\ started' = started + 1
    /\ UNCHANGED <<store, mode, seat_call>>

\* _handle_checkout_session_completed as it would be without the payment-status
\* and metadata checks.
WebhookFindSessionUnchecked(r) ==
    /\ At(r, "webhook", "w_session")
    /\ IF EnrollmentsOfSession(enrollments, EventSession(req[r].event).id) # {}
       THEN Finish(r, "200 received")
       ELSE Goto(r, "w_enrollment")
    /\ UNCHANGED <<store, started, mode, seat_call>>

\* The payment-status and metadata checks, then the look-up by checkout-session id.
WebhookFindSession(r) ==
    /\ At(r, "webhook", "w_session")
    /\ LET session == EventSession(req[r].event)
       IN IF session.payment_status # "paid"
          THEN Finish(r, "200 received")
          ELSE IF session.user_id = Nil \/ session.schedule_id = None
                  \/ session.course_id = None
          THEN Finish(r, "200 received")
          ELSE IF EnrollmentsOfSession(enrollments, session.id) # {}
          THEN Finish(r, "200 received")
          ELSE Goto(r, "w_enrollment")
    /\ UNCHANGED <<store, started, mode, seat_call>>

\* _handle_checkout_session_completed as it would be if it wrote the payment
\* status of the event into an enrollment it finds.
WebhookCreateEnrollmentUpdating(r) ==
    /\ At(r, "webhook", "w_enrollment")
    /\ LET session == EventSession(req[r].event)
           m == EnrollmentMatches(enrollments, session.user_id, session.schedule_id)
           e == create_enrollment(enrollments, WebhookEnrollmentKwargs, session.user_id,
                                  session.schedule_id, session.course_id)
       IN IF m # {}
          THEN /\ enrollments' = [i \in 1..Len(enrollments) |->
                                    IF i \in m
                                    THEN [enrollments[i] EXCEPT !.payment_status = "PAID"]
                                    ELSE enrollments[i]]
               /\ Finish(r, "200 received")
          ELSE /\ enrollments' = e.docs
               /\ Finish(r, IF e.raised = None THEN "200 received"
                                               ELSE "500 Internal Server Error")
    /\ UNCHANGED <<total_seats, assigned_seats, trainees, next_trainee, assignments, users,
                   next_user, indexes, accounts, started, mode, seat_call>>

\* The look-up by (user_id, schedule_id); an existing enrollment is left alone,
\* otherwise create_enrollment is called and its exception is not caught.
WebhookCreateEnrollment(r) ==
    /\ At(r, "webhook", "w_enrollment")
    /\ LET session == EventSession(req[r].event)
           e == create_enrollment(enrollments, WebhookEnrollmentKwargs, session.user_id,
                                  session.schedule_id, session.course_id)
       IN IF EnrollmentMatches(enrollments, session.user_id, session.schedule_id) # {}
          THEN Finish(r, "200 received") /\ UNCHANGED enrollments
          ELSE /\ enrollments' = e.docs
               /\ Finish(r, IF e.raised = None THEN "200 received"
                                               ELSE "500 Internal Server Error")
    /\ UNCHANGED <<total_seats, assigned_seats, trainees, next_trainee, assignments, users,
                   next_user, indexes, accounts, started, mode, seat_call>>

\* ---------------------------------------- the seat store called on its own
IncrementCall(l) ==
    /\ LET c == increment_assigned_seats(assigned_seats, l)
       IN /\ assigned_seats' = c.seats
          /\ seat_call' = [op |-> "increment", license_id |-> l,
                           before |-> assigned_seats[l], returned |-> c.returned]
    /\ UNCHANGED <<total_seats, trainees, next_trainee, assignments, users, next_user,
                   enrollments, indexes, accounts, req, started, mode>>

DecrementCall(l) ==
    /\ LET c == decrement_assigned_seats(assigned_seats, l)
       IN /\ assigned_seats' = c.seats
          /\ seat_call' = [op |-> "decrement", license_id |-> l,
                           before |-> assigned_seats[l], returned |-> c.returned]
    /\ UNCHANGED <<total_seats, trainees, next_trainee, assignments, users, next_user,
                   enrollments, indexes, accounts, req, started, mode>>

\* ------------------------------------------------------------ initial states
NoAssignments == [p \in TraineeIds \X LicenseIds |-> 0]

\* The roster two earlier invitations of account A leave behind.
Roster == {[id |-> 1, corporate_account_id |-> "A", user_id |-> 1],
           [id |-> 2, corporate_account_id |-> "A", user_id |-> 2]}
RosterUsers == {[id |-> 1, email |-> "e1"], [id |-> 2, email |-> "e2"]}

\* The application never calls create_indexes; a database has the unique indexes
\* only where they were created out of band.
IndexChoices == {{}, {"assignments", "enrollments", "users"}}

\* Ledgers a direct create_enrollment(user_id, schedule_id, course_id) leaves behind.
LedgerChoices == {<< >>, <<EnrollmentDoc(1, "s1", "c1")>>}

InitStore(totals, roster, roster_users, ledgers, idx) ==
    /\ total_seats \in totals
    /\ assigned_seats = [l \in LicenseIds |-> 0]
    /\ trainees = roster
    /\ next_trainee = Cardinality(roster) + 1
    /\ assignments = NoAssignments
    /\ users = roster_users
    /\ next_user = Cardinality(roster_users) + 1
    /\ enrollments \in ledgers
    /\ indexes \in idx
    /\ accounts = {}
    /\ started = 0
    /\ seat_call = NoSeatCall

Totals == {t \in [LicenseIds -> 1..MaxSeats] : t["L2"] = 1 /\ t["L3"] = 1}

Init ==
    /\ InitStore(Totals, Roster, RosterUsers, LedgerChoices, IndexChoices)
    /\ req = [r \in Reqs |-> IdleRequest]
    /\ mode = "concurrent"

\* One request at a time.
InitSeq ==
    /\ InitStore(Totals, Roster, RosterUsers, LedgerChoices, IndexChoices)
    /\ req = [r \in Reqs |-> IdleRequest]
    /\ mode = "sequential"

\* The assign race: one assign request per trainee, all against licence L1 with
\* fewer seats than requests, all entered before any of them has run.
RaceRoster == Roster \cup {[id |-> 3, corporate_account_id |-> "A", user_id |-> 3]}
RaceUsers == RosterUsers \cup {[id |-> 3, email |-> "e3"]}
RaceTrainee(r) == CASE r = "r1" -> 1 [] r = "r2" -> 2 [] r = "r3" -> 3
RaceTotals == {t \in Totals : t["L1"] < Cardinality(RaceReqs)}

InitRace ==
    /\ InitStore(RaceTotals, RaceRoster, RaceUsers, LedgerChoices, IndexChoices)
    /\ req = [r \in RaceReqs |->
                [IdleRequest EXCEPT !.op = "assign", !.pc = "a_license", !.account = "A",
                                    !.trainee_id = RaceTrainee(r), !.license_id = "L1"]]
    /\ mode = "concurrent"

\* The seat store on its own: every licence with any assigned_seats of its range.
InitSeatStore ==
    /\ total_seats \in Totals
    /\ assigned_seats \in {a \in [LicenseIds -> 0..MaxSeats] :
                              \A l \in LicenseIds : a[l] <= total_seats[l]}
    /\ trainees = Roster
    /\ next_trainee = Cardinality(Roster) + 1
    /\ assignments = NoAssignments
    /\ users = RosterUsers
    /\ next_user = Cardinality(RosterUsers) + 1
    /\ enrollments = << >>
    /\ indexes = {}
    /\ accounts = {}
    /\ started = 0
    /\ seat_call = NoSeatCall
    /\ req = [r \in Reqs |-> IdleRequest]
    /\ mode = "concurrent"

\* Two tenants: trainee 3 belongs to account B and holds the one seat of B's
\* licence L3; the requests are made by the admin of account A.
TenantRoster == Roster \cup {[id |-> 3, corporate_account_id |-> "B", user_id |-> 3]}
TenantUsers == RosterUsers \cup {[id |-> 3, email |-> "e3"]}
TenantAssignments == [NoAssignments EXCEPT ![<<3, "L3">>] = 1]
TenantSeats == [l \in LicenseIds |-> IF l = "L3" THEN 1 ELSE 0]
TenantLedgers == {<< >>, <<EnrollmentDoc(3, "s1", "c1")>>}

InitTenant ==
    /\ total_seats \in Totals
    /\ assigned_seats = TenantSeats
    /\ trainees = TenantRoster
    /\ next_trainee = Cardinality(TenantRoster) + 1
    /\ assignments = TenantAssignments
    /\ users = TenantUsers
    /\ next_user = Cardinality(TenantUsers) + 1
    /\ enrollments \in TenantLedgers
    /\ indexes \in IndexChoices
    /\ accounts = {}
    /\ started = 0
    /\ seat_call = NoSeatCall
    /\ req = [r \in Reqs |-> IdleRequest]
    /\ mode = "concurrent"

\* The invite race: user 2 (email e2) is registered but is no trainee yet, and two
\* invitations of e2 into account A have been accepted before either has run.
InviteRaceRoster == {[id |-> 1, corporate_account_id |-> "A", user_id |-> 1]}

InitInviteRace ==
    /\ InitStore(Totals, InviteRaceRoster, RosterUsers, LedgerChoices, IndexChoices)
    /\ req = [r \in Reqs |->
                [IdleRequest EXCEPT !.op = "invite", !.pc = "i_user", !.account = "A",
                                    !.email = "e2", !.license_id = "L1"]]
    /\ mode = "concurrent"

\* The example scenario after its first two steps: licence L1 has two seats,
\* trainees 1 and 2 hold them, trainee 3 is on the roster without a seat.
ScenarioTotals == {t \in Totals : t["L1"] = 2}
ScenarioAssignments == [NoAssignments EXCEPT ![<<1, "L1">>] = 1, ![<<2, "L1">>] = 1]
ScenarioSeats == [l \in LicenseIds |-> IF l = "L1" THEN 2 ELSE 0]

InitScenario ==
    /\ total_seats \in ScenarioTotals
    /\ assigned_seats = ScenarioSeats
    /\ trainees = RaceRoster
    /\ next_trainee = Cardinality(RaceRoster) + 1
    /\ assignments = ScenarioAssignments
    /\ users = RaceUsers
    /\ next_user = Cardinality(RaceUsers) + 1
    /\ enrollments \in LedgerChoices
    /\ indexes \in IndexChoices
    /\ accounts = {}
    /\ started = 0
    /\ seat_call = NoSeatCall
    /\ req = [r \in Reqs |-> IdleRequest]
    /\ mode = "sequential"

\* The unassign race: trainee 1 holds one assignment to licence L1, trainee 2
\* holds a seat of L1 too where L1 has two, and two unassign requests of
\* (trainee 1, L1) have been accepted before either has run.
UnassignRaceAssignments ==
    {[NoAssignments EXCEPT ![<<1, "L1">>] = 1],
     [NoAssignments EXCEPT ![<<1, "L1">>] = 1, ![<<2, "L1">>] = 1]}

InitUnassignRace ==
    /\ total_seats \in Totals
    /\ assignments \in UnassignRaceAssignments
    /\ assigned_seats = [l \in LicenseIds |-> AssignmentsOfLicense(l)]
    /\ assigned_seats["L1"] <= total_seats["L1"]
    /\ trainees = Roster
    /\ next_trainee = Cardinality(Roster) + 1
    /\ users = RosterUsers
    /\ next_user = Cardinality(RosterUsers) + 1
    /\ enrollments \in LedgerChoices
    /\ indexes \in IndexChoices
    /\ accounts = {}
    /\ started = 0
    /\ seat_call = NoSeatCall
    /\ req = [r \in Reqs |->
                [IdleRequest EXCEPT !.op = "unassign", !.pc = "u_find", !.account = "A",
                                    !.trainee_id = 1, !.license_id = "L1"]]
    /\ mode = "concurrent"

\* -------------------------------------------------------------- behaviours
Step(r) ==
    \/ AssignFindLicense(r) \/ AssignFindTrainee(r) \/ AssignFindAssignment(r)
    \/ AssignCreateAssignment(r) \/ AssignIncrementSeats(r)
    \/ UnassignFindAssignment(r) \/ UnassignRemoveAssignment(r)
    \/ UnassignDecrementSeats(r) \/ UnassignFindDocs(r) \/ UnassignFindEnrollment(r)
    \/ UnassignDropEnrollment(r)
    \/ InviteFindUser(r) \/ InviteCreateUserCheck(r) \/ InviteCreateUserInsert(r)
    \/ InviteFindTrainee(r) \/ InviteCreateTrainee(r) \/ InviteFindLicense(r)
    \/ InviteCreateAssignment(r) \/ InviteIncrementSeats(r)
    \/ RemoveFindTrainee(r) \/ RemoveDeleteTrainee(r)
    \/ WebhookFindSession(r) \/ WebhookCreateEnrollment(r)

Start(r) ==
    \/ \E t \in {1, 2}, l \in {"L1", "L2"} : StartAssign(r, "A", t, l)
    \/ \E t \in {1, 2}, l \in {"L1", "L2"} : StartUnassign(r, "A", t, l)
    \/ StartInvite(r, "A", "e3", "L1")
    \/ StartRemoveTrainee(r, "A", 1)
    \/ StartWebhook(r, "paid1")

Next == \E r \in Reqs : Start(r) \/ Step(r)

Spec == Init /\ [][Next]_vars

SpecSeq == InitSeq /\ [][Next]_vars

NextRace ==
    \E r \in RaceReqs :
        \/ AssignFindLicense(r) \/ AssignFindTrainee(r) \/ AssignFindAssignment(r)
        \/ AssignCreateAssignment(r) \/ AssignIncrementSeats(r)

SpecRace == InitRace /\ [][NextRace]_vars

\* The admin of account A assigns and unassigns, naming its own and B's
\* trainees and licences.
NextTenant ==
    \E r \in Reqs :
        \/ \E t \in {1, 3}, l \in {"L1", "L3"} : StartAssign(r, "A", t, l)
        \/ \E t \in {1, 3}, l \in {"L1", "L3"} : StartUnassign(r, "A", t, l)
        \/ AssignFindLicense(r) \/ AssignFindTrainee(r) \/ AssignFindAssignment(r)
        \/ AssignCreateAssignment(r) \/ AssignIncrementSeats(r)
        \/ UnassignFindAssignment(r) \/ UnassignRemoveAssignment(r)
        \/ UnassignDecrementSeats(r) \/ UnassignFindDocs(r) \/ UnassignFindEnrollment(r)
        \/ UnassignDropEnrollment(r)

SpecTenant == InitTenant /\ [][NextTenant]_vars

\* Invitations of a known and of a new employee, with no licence, with a licence
\* of the caller, with a licence of another account and with an unknown licence
\* id, among assign requests that use up the seats of L1.
InviteLicenses == {None, "L1", "L3", "Lx"}

NextInvite ==
    \E r \in Reqs :
        \/ \E e \in {"e1", "e3"}, l \in InviteLicenses : StartInvite(r, "A", e, l)
        \/ \E t \in {1, 2} : StartAssign(r, "A", t, "L1")
        \/ InviteFindUser(r) \/ InviteCreateUserCheck(r) \/ InviteCreateUserInsert(r)
        \/ InviteFindTrainee(r) \/ InviteCreateTrainee(r) \/ InviteFindLicense(r)
        \/ InviteCreateAssignment(r) \/ InviteIncrementSeats(r)
        \/ AssignFindLicense(r) \/ AssignFindTrainee(r) \/ AssignFindAssignment(r)
        \/ AssignCreateAssignment(r) \/ AssignIncrementSeats(r)

SpecInvite == InitSeq /\ [][NextInvite]_vars

\* Registrations of corporate accounts, one at a time, for a registered and for
\* a new admin email.
NextRegister ==
    \E r \in Reqs :
        \/ \E e \in Emails : StartRegister(r, e)
        \/ RegisterCreateUserCheck(r) \/ RegisterCreateUserInsert(r)
        \/ RegisterCreateAccount(r) \/ RegisterDeleteUser(r) \/ RegisterFindAccount(r)

SpecRegister == InitSeq /\ [][NextRegister]_vars

NextInviteRace ==
    \E r \in Reqs :
        \/ InviteFindUser(r) \/ InviteFindTrainee(r) \/ InviteCreateTrainee(r)
        \/ InviteFindLicense(r) \/ InviteCreateAssignment(r) \/ InviteIncrementSeats(r)

SpecInviteRace == InitInviteRace /\ [][NextInviteRace]_vars

\* Deliveries of checkout.session.completed events, one at a time: paid and
\* unpaid, with complete and with incomplete metadata.
NextWebhook ==
    \E r \in Reqs :
        \/ \E ev \in Events : StartWebhook(r, ev)
        \/ WebhookFindSession(r) \/ WebhookCreateEnrollment(r)

SpecWebhook == InitSeq /\ [][NextWebhook]_vars

\* The rest of the example scenario, one request at a time: assigns of trainee 3
\* and unassigns of trainees 1 and 2, all on licence L1.
NextScenario ==
    \E r \in Reqs :
        \/ StartAssign(r, "A", 3, "L1")
        \/ \E t \in {1, 2} : StartUnassign(r, "A", t, "L1")
        \/ AssignFindLicense(r) \/ AssignFindTrainee(r) \/ AssignFindAssignment(r)
        \/ AssignCreateAssignment(r) \/ AssignIncrementSeats(r)
        \/ UnassignFindAssignment(r) \/ UnassignRemoveAssignment(r)
        \/ UnassignDecrementSeats(r) \/ UnassignFindDocs(r) \/ UnassignFindEnrollment(r)
        \/ UnassignDropEnrollment(r)

SpecScenario == InitScenario /\ [][NextScenario]_vars

NextUnassignRace ==
    \E r \in Reqs :
        \/ UnassignFindAssignment(r) \/ UnassignRemoveAssignment(r)
        \/ UnassignDecrementSeats(r) \/ UnassignFindDocs(r) \/ UnassignFindEnrollment(r)
        \/ UnassignDropEnrollment(r)

SpecUnassignRace == InitUnassignRace /\ [][NextUnassignRace]_vars

\* The two seat operations called in any order on licences that are within
\* their seat range.
NextSeatStore ==
    \E l \in LicenseIds :
        \/ assigned_seats[l] <= total_seats[l] /\ IncrementCall(l)
        \/ DecrementCall(l)

SpecSeatStore == InitSeatStore /\ [][NextSeatStore]_vars

\* ------------------------------------------------------------------ claims
AllDone == \A r \in DOMAIN req : req[r].pc = "done"

\* r is the request that ran last, and it has finished (sequential runs).
Latest(r) == AllDone /\ req[r].seq = started /\ started > 0

Succeeded(r, op) == req[r].op = op /\ req[r].pc = "done" /\ req[r].result = "200 success"

\* C1: for every licence, in every reachable state and under any interleaving of
\* assign, unassign and invite-with-licence requests, 0 <= assigned_seats <= total_seats.
SeatInvariant ==
    \A l \in LicenseIds : 0 <= assigned_seats[l] /\ assigned_seats[l] <= total_seats[l]

\* C2: when N concurrent assign requests for N distinct trainees meet a licence
\* with total_seats = k < N and assigned_seats = 0, exactly k succeed, the other
\* N - k fail with "No seats available", and assigned_seats ends at k.
RaceExactlyK ==
    AllDone =>
        LET k == total_seats["L1"]
            ok == {r \in DOMAIN req : req[r].result = "200 success"}
            full == {r \in DOMAIN req : req[r].result = "400 No seats available"}
        IN /\ Cardinality(ok) = k
           /\ Cardinality(full) = Cardinality(DOMAIN req) - k
           /\ assigned_seats["L1"] = k

\* C3: increment_assigned_seats adds 1 and returns true only when assigned_seats <
\* total_seats at the moment of the update; on a saturated licence it returns
\* false and leaves assigned_seats unchanged.
IncrementOnlyBelowTotal ==
    seat_call.op = "increment" =>
        LET l == seat_call.license_id
        IN IF seat_call.before < total_seats[l]
           THEN seat_call.returned /\ assigned_seats[l] = seat_call.before + 1
           ELSE ~seat_call.returned /\ assigned_seats[l] = seat_call.before

\* C4: an assign request whose seat increment comes when the licence is already
\* full (filled by a concurrent assignment after the pre-check) fails with "No
\* seats available" and its assignment record is deleted again.
RollbackOnFullIncrement ==
    \A r \in DOMAIN req :
        (req[r].op = "assign" /\ req[r].pc = "done" /\ req[r].full_at_increment)
            => req[r].result = "400 No seats available"

\* An assign request of sequential runs for a pair that had an assignment when it started.
RepeatedAssign(r) == Latest(r) /\ req[r].op = "assign" /\ req[r].assigned_before > 0

AssignChangedNothing(r) ==
    /\ AssignmentCount(req[r].trainee_id, req[r].license_id) = req[r].assigned_before
    /\ assigned_seats[req[r].license_id] = req[r].seats_before

\* C5 as stated: if an assignment already exists for (trainee, licence), a further
\* assign request for the pair fails with "Already assigned" (409), creates no
\* second assignment record and leaves assigned_seats unchanged.
RepeatedAssignConflicts ==
    \A r \in DOMAIN req :
        RepeatedAssign(r) => req[r].result = "409 Already assigned" /\ AssignChangedNothing(r)

\* C5 as amended: with no other request running, a further assign request for a
\* pair that already has an assignment fails, creates no second assignment record
\* and leaves assigned_seats unchanged; the failure is "No seats available" when
\* the licence is full, "Trainee not found" when the trainee record is gone, and
\* "Already assigned" otherwise.
RepeatedAssignFails ==
    \A r \in DOMAIN req :
        RepeatedAssign(r) =>
            /\ req[r].result =
                 IF req[r].seats_before >= total_seats[req[r].license_id]
                 THEN "400 No seats available"
                 ELSE IF TraineeDocs(req[r].trainee_id) = {}
                 THEN "404 Trainee not found"
                 ELSE "409 Already assigned"
            /\ AssignChangedNothing(r)

\* C5 witness: a repeated assign that was answered "Already assigned".
RepeatedAssignSeen ==
    \E r \in DOMAIN req : RepeatedAssign(r) /\ req[r].result = "409 Already assigned"

\* C6: in every reachable state at most one assignment record exists for a
\* (trainee, licence) pair.
AssignmentUnique ==
    \A t \in TraineeIds, l \in LicenseIds : AssignmentCount(t, l) <= 1

\* C7: whenever no request is in progress, each licence's assigned_seats equals
\* the number of stored assignment records that reference the licence.
SeatsMatchAssignments ==
    AllDone => \A l \in LicenseIds : assigned_seats[l] = AssignmentsOfLicense(l)

\* Two finished deliveries of the same paid event with complete metadata.
DeliveredTwice(a, b) ==
    /\ a # b
    /\ req[a].op = "webhook" /\ req[a].pc = "done"
    /\ req[b].op = "webhook" /\ req[b].pc = "done"
    /\ req[a].event = req[b].event
    /\ LET session == EventSession(req[a].event)
       IN /\ session.payment_status = "paid"
          /\ session.user_id # Nil /\ session.schedule_id # None /\ session.course_id # None

\* C8: delivering the same paid payment-completion event twice leaves exactly one
\* Enrollment carrying its checkout-session id (events whose user is not already
\* enrolled in the offering by other means).
DeliveredTwiceEnrolledOnce ==
    \A a, b \in DOMAIN req :
        LET session == EventSession(req[a].event)
        IN (DeliveredTwice(a, b)
            /\ EnrollmentMatches(enrollments, session.user_id, session.schedule_id)
                  \subseteq EnrollmentsOfSession(enrollments, session.id))
           => Cardinality(EnrollmentsOfSession(enrollments, session.id)) = 1

\* C9: in every reachable state the enrollment ledger holds at most one
\* Enrollment per (user id, offering id) pair.
LedgerUnique ==
    \A i, j \in 1..Len(enrollments) :
        (enrollments[i].user_id = enrollments[j].user_id
         /\ enrollments[i].schedule_id = enrollments[j].schedule_id) => i = j

\* C9 witness: an assign has succeeded and a paid event has been delivered for a
\* user who already holds the Enrollment of that offering.
LedgerUniqueExercised ==
    \E a, w \in DOMAIN req :
        /\ Succeeded(a, "assign")
        /\ req[w].op = "webhook" /\ req[w].pc = "done" /\ req[w].event = "paid1"
        /\ EventSession("paid1").user_id = req[a].user_id
        /\ EnrollmentMatches(enrollments, req[a].user_id,
                             LicenseSchedule(req[a].license_id)) # {}

\* A successful assign of a pair without assignment, immediately followed by a
\* successful unassign of the same pair (sequential runs).
AssignThenUnassign(a, u) ==
    /\ Latest(u) /\ Succeeded(u, "unassign") /\ Succeeded(a, "assign")
    /\ req[a].seq + 1 = req[u].seq
    /\ req[a].trainee_id = req[u].trainee_id /\ req[a].license_id = req[u].license_id
    /\ req[a].assigned_before = 0

\* C10: a successful assign followed by a successful unassign of the same pair
\* restores assigned_seats and leaves the Enrollment of (trainee's user, licence's
\* offering) with status DROPPED.
UnassignSymmetry ==
    \A a, u \in DOMAIN req :
        AssignThenUnassign(a, u) =>
            LET m == EnrollmentMatches(enrollments, req[a].user_id,
                                       LicenseSchedule(req[a].license_id))
            IN /\ assigned_seats[req[a].license_id] = req[a].seats_before
               /\ m # {}
               /\ \A i \in m : enrollments[i].status = "DROPPED"

\* A finished assign or unassign request of an admin that names a trainee or a
\* licence of another account.
CrossTenant(r) ==
    /\ req[r].op \in {"assign", "unassign"} /\ req[r].pc = "done"
    /\ \/ LicenseAccount(req[r].license_id) # req[r].account
       \/ \E d \in TenantRoster :
              d.id = req[r].trainee_id /\ d.corporate_account_id # req[r].account

NotFound == {"404 License not found", "404 Trainee not found", "404 Assignment not found"}

\* C11: an assign or unassign request of an admin of account A that names a
\* licence, trainee or assignment of account B fails with NotFound and leaves B's
\* licences (assigned_seats), B's assignment records and the enrollments of B's
\* trainees unchanged.
TenantIsolation ==
    /\ \A r \in DOMAIN req : CrossTenant(r) => req[r].result \in NotFound
    /\ \A l \in LicenseIds : LicenseAccount(l) = "B" => assigned_seats[l] = TenantSeats[l]
    /\ \A d \in TenantRoster : d.corporate_account_id = "B" =>
           /\ \A l \in LicenseIds : AssignmentCount(d.id, l) = TenantAssignments[<<d.id, l>>]
           /\ \A i \in EnrollmentMatches(enrollments, d.user_id, "s1") :
                  enrollments[i].status = "ENROLLED"

\* Fields a stored enrollment may lack.
AmountOf(doc) == IF "amount_total" \in DOMAIN doc THEN doc.amount_total ELSE Nil
PaymentMethodOf(doc) ==
    IF "payment_method_type" \in DOMAIN doc THEN doc.payment_method_type ELSE None

\* The Enrollment a corporate seat is to leave in the ledger.
CorporateEnrollment(doc, l) ==
    /\ doc.course_id = LicenseCourse(l)
    /\ AmountOf(doc) = 0
    /\ doc.payment_status = "PAID"
    /\ PaymentMethodOf(doc) = "corporate_license"
    /\ doc.status = "ENROLLED"

\* C12: after a successful assign of a trainee to a licence, when no Enrollment
\* existed before for (trainee's user, licence's offering), the ledger holds
\* exactly one Enrollment of the pair, with the licence's course, amount 0,
\* payment status PAID, payment method corporate_license and status ENROLLED.
AssignEnrolls ==
    \A r \in DOMAIN req :
        (/\ Latest(r) /\ Succeeded(r, "assign")
         /\ EnrollmentMatches(req[r].before.enrollments, req[r].user_id,
                              LicenseSchedule(req[r].license_id)) = {})
        => LET l == req[r].license_id
               m == EnrollmentMatches(enrollments, req[r].user_id, LicenseSchedule(l))
           IN /\ Cardinality(m) = 1
              /\ \A i \in m : CorporateEnrollment(enrollments[i], l)

\* An assign request of a sequential run whose ledger write raised.
LedgerWriteFailed(r) == Latest(r) /\ req[r].op = "assign" /\ req[r].enroll_raised # None

\* C13: if the ledger write fails during assign, the request still reports
\* success, the assignment record remains stored and assigned_seats stays
\* incremented by exactly 1.
AssignSurvivesLedgerFailure ==
    \A r \in DOMAIN req :
        LedgerWriteFailed(r) =>
            /\ req[r].result = "200 success"
            /\ AssignmentCount(req[r].trainee_id, req[r].license_id)
                  = req[r].assigned_before + 1
            /\ assigned_seats[req[r].license_id] = req[r].seats_before + 1

\* C13 witness: an assign whose create_enrollment call raised has finished.
LedgerFailureSeen == \E r \in DOMAIN req : LedgerWriteFailed(r)

\* A finished invite request of a sequential run.
Invited(r) == Latest(r) /\ req[r].op = "invite"

\* The invited email belonged to a trainee of the caller's account already.
KnownBefore(r) ==
    \E u \in req[r].before.users, d \in req[r].before.trainees :
        /\ u.email = req[r].email
        /\ d.user_id = u.id /\ d.corporate_account_id = req[r].account

\* The request has added exactly one CorporateTrainee: its own.
OneNewTrainee(r) ==
    /\ Cardinality(trainees \ req[r].before.trainees) = 1
    /\ \A d \in trainees \ req[r].before.trainees :
           /\ d.id = req[r].new_trainee
           /\ d.corporate_account_id = req[r].account /\ d.user_id = req[r].user_id

\* C14: inviting a new employee with a licence of the caller's account that has
\* exactly one free seat gives exactly one new CorporateTrainee, exactly one new
\* TraineeAssignment for (trainee, licence), assigned_seats increased by exactly
\* 1, and exactly one Enrollment for (user, offering) with amount 0 and PAID.
InviteAutoAssigns ==
    \A r \in DOMAIN req :
        LET l == req[r].license_id
        IN (/\ Invited(r)
            /\ \A u \in req[r].before.users : u.email # req[r].email
            /\ LicenseExists(l) /\ LicenseAccount(l) = req[r].account
            /\ req[r].seats_before = total_seats[l] - 1)
           => LET m == EnrollmentMatches(enrollments, req[r].user_id, LicenseSchedule(l))
              IN /\ req[r].result = "200 invited"
                 /\ OneNewTrainee(r)
                 /\ AssignmentCount(req[r].new_trainee, l) = 1
                 /\ AssignmentsOfLicense(l) = req[r].seats_before + 1
                 /\ assigned_seats[l] = req[r].seats_before + 1
                 /\ Cardinality(m) = 1
                 /\ \A i \in m : /\ AmountOf(enrollments[i]) = 0
                                 /\ enrollments[i].payment_status = "PAID"

\* The inline assignment of an invitation cannot be made: the licence is
\* missing, owned by another account, or full.
NoInlineAssignment(r) ==
    LET l == req[r].license_id
    IN /\ Invited(r) /\ l # None /\ ~KnownBefore(r)
       /\ \/ ~LicenseExists(l)
          \/ LicenseAccount(l) # req[r].account
          \/ req[r].seats_before >= total_seats[l]

\* C15: when invite-trainee is given a licence id and the inline assignment
\* cannot be made, the invitation still succeeds: exactly one CorporateTrainee is
\* created, no assignment record is created and assigned_seats is unchanged.
InviteSurvivesFailedAssignment ==
    \A r \in DOMAIN req :
        NoInlineAssignment(r) =>
            /\ req[r].result = "200 invited"
            /\ OneNewTrainee(r)
            /\ assignments = req[r].before.assignments
            /\ assigned_seats = req[r].before.assigned_seats

\* C15 witness: an invitation naming a licence of the caller that earlier assign
\* requests had filled has been answered.
FailedAssignmentSeen ==
    \E r \in DOMAIN req :
        /\ NoInlineAssignment(r)
        /\ req[r].license_id = "L1" /\ req[r].seats_before >= total_seats["L1"]
        /\ req[r].result = "200 invited"

\* C18: an invite request for an email whose user is already a CorporateTrainee
\* of the caller's account fails with "User is already a trainee in this account"
\* (409) and creates no trainee record, no user and no assignment.
InviteKnownTraineeConflicts ==
    \A r \in DOMAIN req :
        (Invited(r) /\ KnownBefore(r)) =>
            /\ req[r].result = "409 User is already a trainee in this account"
            /\ trainees = req[r].before.trainees
            /\ users = req[r].before.users
            /\ assignments = req[r].before.assignments

\* C18 witness: an invitation of an employee who was a trainee of the account
\* already has been answered.
KnownTraineeInvited == \E r \in DOMAIN req : Invited(r) /\ KnownBefore(r)

\* A registration of a sequential run whose account insert failed after its
\* admin user had been created.
AccountInsertFailed(r) == Latest(r) /\ req[r].op = "register" /\ req[r].account_failed

\* C16: if account persistence fails after the admin user was created during
\* register-account, the user is deleted, no account exists, the operation fails
\* ("Failed to create account"), and a look-up of the email finds no user.
RegistrationRollback ==
    \A r \in DOMAIN req :
        AccountInsertFailed(r) =>
            /\ req[r].result = "500 Failed to create account"
            /\ \A d \in users : d.id # req[r].user_id
            /\ UsersByEmail(req[r].email) = {}
            /\ accounts = req[r].before.accounts
            /\ \A a \in accounts : a.admin_user_id # req[r].user_id

\* C16 witness: a registration whose account insert failed has been answered.
RollbackSeen ==
    \E r \in DOMAIN req : AccountInsertFailed(r) /\ req[r].user_id # Nil

\* C17: in every reachable state, including after two concurrent invitations of
\* the same email into the same account, at most one CorporateTrainee record
\* exists per (account id, user id) pair.
TraineeUnique ==
    \A d, e \in trainees :
        (d.corporate_account_id = e.corporate_account_id /\ d.user_id = e.user_id)
            => d = e

\* An assign request of a sequential run that found its own licence full.
AssignOnFullLicense(r) ==
    /\ Latest(r) /\ req[r].op = "assign"
    /\ LicenseExists(req[r].license_id)
    /\ LicenseAccount(req[r].license_id) = req[r].account
    /\ req[r].seats_before >= total_seats[req[r].license_id]

\* C19: an assign request against a licence (of the caller) whose assigned_seats
\* >= total_seats fails with "No seats available" and leaves assigned_seats, the
\* assignment records and the enrollment ledger unchanged.
FullLicenseRejects ==
    \A r \in DOMAIN req :
        AssignOnFullLicense(r) =>
            /\ req[r].result = "400 No seats available"
            /\ assigned_seats = req[r].before.assigned_seats
            /\ assignments = req[r].before.assignments
            /\ enrollments = req[r].before.enrollments

\* C19 witness: an assign request against a full licence has been answered.
FullLicenseSeen == \E r \in DOMAIN req : AssignOnFullLicense(r)

\* C20: decrement_assigned_seats on a licence with assigned_seats = 0 returns
\* false and leaves assigned_seats at 0; with assigned_seats > 0 it subtracts
\* exactly 1 and returns true; assigned_seats never goes below 0.
DecrementGuarded ==
    /\ \A l \in LicenseIds : assigned_seats[l] >= 0
    /\ seat_call.op = "decrement" =>
           LET l == seat_call.license_id
           IN IF seat_call.before = 0
              THEN ~seat_call.returned /\ assigned_seats[l] = 0
              ELSE seat_call.returned /\ assigned_seats[l] = seat_call.before - 1

\* C20 witness: decrement_assigned_seats has been called on a licence with no
\* assigned seat.
DecrementAtZeroSeen ==
    seat_call.op = "decrement" /\ seat_call.before = 0 /\ ~seat_call.returned

\* A finished delivery of a sequential run.
Delivered(r) == Latest(r) /\ req[r].op = "webhook"

\* The event is paid and carries user, schedule and course id.
PaidAndComplete(ev) ==
    LET session == EventSession(ev)
    IN /\ session.payment_status = "paid"
       /\ session.user_id # Nil /\ session.schedule_id # None /\ session.course_id # None

\* The (user, offering) of the event had an Enrollment, none of which carried
\* the checkout-session id of the event.
EnrolledByOtherMeans(r) ==
    LET session == EventSession(req[r].event)
        docs == req[r].before.enrollments
    IN /\ EnrollmentMatches(docs, session.user_id, session.schedule_id) # {}
       /\ EnrollmentsOfSession(docs, session.id) = {}

IgnoredEventAcknowledged ==
    \A r \in DOMAIN req :
        (Delivered(r) /\ ~PaidAndComplete(req[r].event)) =>
            /\ req[r].result = "200 received"
            /\ enrollments = req[r].before.enrollments

\* C22 witness: an event without schedule id has been delivered.
IgnoredEventSeen ==
    \E r \in DOMAIN req : Delivered(r) /\ req[r].event = "nosched"

\* Provider fields a stored enrollment may lack.
CurrencyOf(doc) == IF "currency" \in DOMAIN doc THEN doc.currency ELSE None
PaymentIntentOf(doc) ==
    IF "stripe_payment_intent_id" \in DOMAIN doc THEN doc.stripe_payment_intent_id ELSE None
CustomerOf(doc) ==
    IF "stripe_customer_id" \in DOMAIN doc THEN doc.stripe_customer_id ELSE None

\* C23: a paid event with complete metadata, when no Enrollment exists for its
\* checkout-session id or for its (user id, offering id), creates exactly one
\* Enrollment with payment status PAID whose amount, currency, checkout-session
\* id, payment-intent id and customer id equal those of the event.
PaidEventEnrolls ==
    \A r \in DOMAIN req :
        LET session == EventSession(req[r].event)
            docs == req[r].before.enrollments
        IN (/\ Delivered(r) /\ PaidAndComplete(req[r].event)
            /\ EnrollmentsOfSession(docs, session.id) = {}
            /\ EnrollmentMatches(docs, session.user_id, session.schedule_id) = {})
           => LET m == EnrollmentMatches(enrollments, session.user_id, session.schedule_id)
              IN /\ Len(enrollments) = Len(docs) + 1
                 /\ Cardinality(m) = 1
                 /\ \A i \in m :
                       /\ enrollments[i].payment_status = "PAID"
                       /\ AmountOf(enrollments[i]) = SessionPayment.amount_total
                       /\ CurrencyOf(enrollments[i]) = SessionPayment.currency
                       /\ SessionIdOf(enrollments[i]) = session.id
                       /\ PaymentIntentOf(enrollments[i]) = SessionPayment.payment_intent
                       /\ CustomerOf(enrollments[i]) = SessionPayment.customer

\* A successful assign of a sequential run whose (trainee's user, licence's
\* offering) had an Enrollment already.
AssignedWhileEnrolled(r) ==
    /\ Latest(r) /\ Succeeded(r, "assign")
    /\ EnrollmentMatches(req[r].before.enrollments, req[r].user_id,
                         LicenseSchedule(req[r].license_id)) # {}

\* C24: when an Enrollment already exists for (trainee's user id, licence's
\* offering id), a successful assign leaves that Enrollment unchanged in every
\* field and adds no second Enrollment for the pair.
AssignLeavesEnrollment ==
    \A r \in DOMAIN req :
        AssignedWhileEnrolled(r) => enrollments = req[r].before.enrollments

\* C24 witness: a trainee whose user was enrolled already has been assigned.
AssignedWhileEnrolledSeen == \E r \in DOMAIN req : AssignedWhileEnrolled(r)

\* C25: after remove-trainee succeeds, no assignment record references the
\* removed trainee and every seat the trainee held has been released.
RemoveReleasesSeats ==
    \A r \in DOMAIN req :
        (Latest(r) /\ Succeeded(r, "remove")) =>
            \A l \in LicenseIds :
                /\ AssignmentCount(req[r].trainee_id, l) = 0
                /\ assigned_seats[l] = req[r].before.assigned_seats[l]
                       - req[r].before.assignments[<<req[r].trainee_id, l>>]

\* The steps of the example scenario, each told by what its request found.
AssignOfThirdOnFull(r) ==
    /\ Latest(r) /\ req[r].op = "assign" /\ req[r].trainee_id = 3
    /\ req[r].before.assigned_seats["L1"] = 2
    /\ req[r].before.assignments = ScenarioAssignments

UnassignOfFirst(r) ==
    /\ Latest(r) /\ req[r].op = "unassign" /\ req[r].trainee_id = 1
    /\ req[r].before.assigned_seats["L1"] = 2
    /\ req[r].before.assignments = ScenarioAssignments

AssignOfThirdOnFreed(r) ==
    /\ Latest(r) /\ req[r].op = "assign" /\ req[r].trainee_id = 3
    /\ req[r].before.assigned_seats["L1"] = 1
    /\ req[r].before.assignments = [ScenarioAssignments EXCEPT ![<<1, "L1">>] = 0]

\* C26: on a licence with total_seats = 2 whose seats trainees A and B hold,
\* assigning trainee C fails with no seats available and assigned_seats stays 2;
\* unassigning A leaves assigned_seats = 1 and A's Enrollment DROPPED; an
\* assign of C after that succeeds and assigned_seats = 2.
SeatReuseScenario ==
    \A r \in DOMAIN req :
        /\ AssignOfThirdOnFull(r) =>
               /\ req[r].result = "400 No seats available"
               /\ assigned_seats["L1"] = 2
        /\ UnassignOfFirst(r) =>
               /\ req[r].result = "200 success"
               /\ assigned_seats["L1"] = 1
               /\ \E i \in EnrollmentMatches(enrollments, 1, LicenseSchedule("L1")) :
                      enrollments[i].status = "DROPPED"
        /\ AssignOfThirdOnFreed(r) =>
               /\ req[r].result = "200 success"
               /\ assigned_seats["L1"] = 2

\* Requests that have removed the assignment / have decremented the seats.
PastRemove == {r \in DOMAIN req : req[r].pc \in {"u_decrement", "u_docs", "u_enrollment", "u_update"}
                                  \/ Succeeded(r, "unassign")}
PastDecrement == PastRemove \ {r \in DOMAIN req : req[r].pc = "u_decrement"}

\* The assignment of (trainee 1, L1) is removed by at most one request, the
\* seats of L1 follow the assignments of L1 through exactly that request's
\* decrement, and when both requests are over the assignment is gone.
RemovedAndDecrementedOnce ==
    /\ Cardinality(PastRemove) <= 1
    /\ AssignmentCount(1, "L1") = 1 - Cardinality(PastRemove)
    /\ assigned_seats["L1"] =
           AssignmentsOfLicense("L1") + Cardinality(PastRemove) - Cardinality(PastDecrement)
    /\ AllDone => Cardinality(PastRemove) = 1

\* A step that ends a request with AssignmentNotFound, the only step such a
\* request takes, changes no collection.
NotFoundChangesNothing ==
    \A r \in DOMAIN req :
        (req[r].pc # "done" /\ req'[r].pc = "done"
            /\ req'[r].result = "404 Assignment not found")
        => /\ req[r].pc = "u_find"
           /\ AssignmentCount(req[r].trainee_id, req[r].license_id) = 0
           /\ UNCHANGED store

\* C27: for two unassign requests on the same (trainee, licence) pair holding
\* one assignment, in any interleaving, the assignment is removed once and
\* assigned_seats is decremented exactly once; a request that finds no
\* assignment fails with AssignmentNotFound and changes nothing.
UnassignOnce == []RemovedAndDecrementedOnce /\ [][NotFoundChangesNothing]_vars

\* C27 witness: both requests are over, one of them having found no assignment
\* and one having lost the race for the delete after finding it.
UnassignRaceSeen ==
    /\ AllDone
    /\ \E r \in DOMAIN req : Succeeded(r, "unassign")
    /\ \E r \in DOMAIN req : req[r].result \in {"404 Assignment not found", "500 Unassign failed"}
    /\ total_seats["L1"] = 2 /\ assigned_seats["L1"] = 1

\* C28: unassign only drops corporate-funded enrollments: an Enrollment of the
\* (user, offering) that was not paid for by a corporate licence, as one made
\* by a paid payment-completion event is, is never set to DROPPED by an
\* unassign of a corporate seat for the same user and offering.
UnassignDropsOnlyCorporate ==
    \A r \in DOMAIN req :
        (Latest(r) /\ Succeeded(r, "unassign")) =>
            LET docs == req[r].before.enrollments
            IN \A i \in 1..Len(docs) :
                   PaymentMethodOf(docs[i]) # "corporate_license"
                   => enrollments[i].status = docs[i].status

\* C29: whenever no request is in progress, every stored assignment (trainee,
\* licence) is matched by an Enrollment for (the trainee's user, the licence's
\* offering) whose status is not DROPPED.
AssignmentsAreEnrolled ==
    AllDone =>
        \A t \in TraineeIds, l \in LicenseIds :
            AssignmentCount(t, l) > 0 =>
                \A d \in TraineeDocs(t) :
                    \E i \in EnrollmentMatches(enrollments, d.user_id, LicenseSchedule(l)) :
                        enrollments[i].status # "DROPPED"

\* C30: whenever an unassign request succeeds and an Enrollment exists for the
\* assigned trainee's user and the licence's offering, that Enrollment ends
\* with status DROPPED, also when the trainee record was removed before the
\* unassign.
UnassignDropsEnrollment ==
    \A r \in DOMAIN req :
        (Latest(r) /\ Succeeded(r, "unassign")) =>
            \A d \in Roster :
                d.id = req[r].trainee_id =>
                    \A i \in EnrollmentMatches(req[r].before.enrollments, d.user_id,
                                               LicenseSchedule(req[r].license_id)) :
                        enrollments[i].status = "DROPPED"
====
